---- MODULE Spec2Model ----
(***************************************************************************)
(* Conway's Game of Life as implemented in this repository:               *)
(*   scripts/game_of_life/runme_numpy.py  (class GameOfLife, NumPy)       *)
(*   scripts/life.py                      (list-of-lists functions)       *)
(* and the two-thread prime count of scripts/Parallel/Prime.py, which is  *)
(* a program of its own with a specification of its own (SpecPrime).      *)
(*                                                                         *)
(* A NumPy array is modelled as a record [shape, data]: shape is the      *)
(* tuple of dimensions and data the row-major buffer.  np.array([0]) is   *)
(* therefore [shape |-> <<1>>, data |-> <<0>>], which is a different      *)
(* value from the 1x1 array [shape |-> <<1, 1>>, data |-> <<0>>].         *)
(* Python indices are 0-based; every index in this module is 1-based.     *)
(***************************************************************************)
EXTENDS Integers, Sequences, FiniteSets

VARIABLES
    pc,               \* "start", "ready", "failed", "running", "life"
    initial_state,    \* the list of lists handed to the constructor
    arg_max,          \* the max_generations handed to the constructor
    op,               \* the method of the object called last
    state,            \* GameOfLife.state
    generation,       \* GameOfLife.generation
    max_generations,  \* GameOfLife.max_generations
    raised,           \* exception that left the last call, or "none"
    ret,              \* value returned by the last run_simulation call
    printed,          \* populations printed by reduce() during the last call
    i,                \* run_simulation: iterations of the for loop done so far
    limit,            \* run_simulation: the local max_generations
    gen0,             \* generation when the current run_simulation was entered
                      \* (i, limit and gen0 are 0 outside run_simulation)
    steps,            \* completed evolve() calls since construction
    snapshot,         \* evolve: self.state right after expand()  (line 176)
    new_state,        \* evolve: new_state assigned at line 186, before reduce()
    counted,          \* array returned by the last call, when that call was
                      \* count_neighbors(); NoArray otherwise
    grid0,            \* state before the last expand() call, kept while the
                      \* reduce() call that directly follows it is the last
                      \* call; NoArray otherwise
    estado,           \* life.py: the list of lists held by the caller
    life_op,          \* life.py: the function applied last
    life_i,           \* life.py main: loop variable i
    life_msg,         \* life.py: reducir printed "Se acabo la vida ..."
    life_out,         \* life.py main: <<generation, population>> printed last
    calls,            \* life.py: function applications so far
    life_grid0,       \* life.py: argument of the last expandir, kept while
                      \* the reducir applied to its result is the last
                      \* application; <<>> otherwise
    primes,           \* Prime.py: the global counter
    lock,             \* Prime.py: 0 when free, else the thread holding it
    threads_pc,       \* Prime.py threads(): "idle", "start1", "start2",
                      \* "join1", "join2", "return"
    hilos,            \* Prime.py: position of each thread in search_primes:
                      \* "new", "loop", "acquire", "load", "store",
                      \* "release", "done"
    prime_i,          \* search_primes: loop variable i of each thread
    local_primes,     \* search_primes: local_primes of each thread
    loaded,           \* search_primes: value of primes read by "primes +="
    prime_ret,        \* value returned by the last threads() call
    prime_calls       \* completed threads() calls

vars == <<pc, initial_state, arg_max, op, state, generation, max_generations,
          raised, ret, printed, i,
          limit, gen0, steps, snapshot, new_state, counted, grid0,
          estado, life_op,
          life_i, life_msg, life_out, calls, life_grid0, primes, lock,
          threads_pc, hilos, prime_i, local_primes, loaded, prime_ret,
          prime_calls>>

classVars == <<initial_state, arg_max, op, state, generation,
               max_generations, raised, ret, printed, i,
               limit, gen0, steps, snapshot, new_state, counted, grid0>>

lifeVars == <<estado, life_op, life_i, life_msg, life_out, calls, life_grid0>>

primeVars == <<primes, lock, threads_pc, hilos, prime_i, local_primes, loaded,
               prime_ret, prime_calls>>

----------------------------------------------------------------------------
(* Bounds of the model *)

MaxCells == 4       \* cells of the 0/1 patterns handed to the constructors
BadRowCount == 2    \* rows of the malformed patterns
BadRowLen == 1      \* row length of the malformed patterns
MaxLimit == 2       \* largest explicit generation limit tried
MaxSteps == 3       \* evolve() calls explored per object
MaxCalls == 3       \* life.py function applications explored
MaxArea == 12      \* largest grid on which a direct expand() call is explored
Half == 6          \* Prime.py: stands for 500000, the end of the first range
MaxPrimeCalls == 2 \* threads() calls explored

(* Program constants *)

ALIVE == 1
DEAD == 0
DefaultMaxGenerations == 151
MainGenerations == 150
live_cell_char == "#"
dead_cell_char == " "

----------------------------------------------------------------------------
(* NumPy arrays *)

ndim(a) == Len(a.shape)

\* row and column of the k-th cell of a row-major buffer with cols columns
RowOf(k, cols) == ((k - 1) \div cols) + 1
ColOf(k, cols) == ((k - 1) % cols) + 1

at(a, r, c) == a.data[(r - 1) * a.shape[2] + c]

NoArray == [shape |-> <<>>, data |-> <<>>]

IsRectangular(lst) ==
    \A r \in 1..Len(lst) : Len(lst[r]) = Len(lst[1])

\* np.array(initial_state) for a list of lists of ints.  A ragged list is
\* a ValueError in NumPy >= 1.24 and a 1-D object array (whose elements are
\* the row lists, not modelled: they are never read) in older releases.
np_array(lst, legacy) ==
    IF lst = <<>>
    THEN [raised |-> "none", array |-> [shape |-> <<0>>, data |-> <<>>]]
    ELSE IF IsRectangular(lst)
    THEN [raised |-> "none",
          array  |-> LET rows == Len(lst)
                         cols == Len(lst[1])
                     IN [shape |-> <<rows, cols>>,
                         data  |-> [k \in 1..(rows * cols) |->
                                      lst[RowOf(k, cols)][ColOf(k, cols)]]]]
    ELSE IF legacy
    THEN [raised |-> "none",
          array  |-> [shape |-> <<Len(lst)>>, data |-> <<>>]]
    ELSE [raised |-> "ValueError: inhomogeneous shape", array |-> NoArray]

RECURSIVE SumSeq(_)
SumSeq(s) == IF s = <<>> THEN 0 ELSE s[1] + SumSeq(Tail(s))

\* GameOfLife.population: np.sum(self.state)
population(a) == SumSeq(a.data)

----------------------------------------------------------------------------
(* Construction *)

E_2D == "TypeError: Game of Life state must be a 2D array"
E_Cells == "TypeError: Game of Life state must contain only cells 0 and 1"
E_MaxGen == "TypeError: max_generations must be greater than 0"

\* variant: the limit check uses < instead of <=, so 0 is accepted
post_init_accepts_zero_limit(a, mg) ==
    IF ndim(a) # 2 THEN E_2D
    ELSE IF ~(\A k \in 1..Len(a.data) : a.data[k] \in {ALIVE, DEAD}) THEN E_Cells
    ELSE IF mg < 0 THEN E_MaxGen
    ELSE "none"

\* GameOfLife.__post_init__: the exception it raises, or "none"
post_init(a, mg) ==
    IF ndim(a) # 2 THEN E_2D
    ELSE IF ~(\A k \in 1..Len(a.data) : a.data[k] \in {ALIVE, DEAD}) THEN E_Cells
    ELSE IF mg <= 0 THEN E_MaxGen
    ELSE "none"

\* GameOfLife(state=np.array(lst), max_generations=mg)
construct(lst, mg, legacy) ==
    LET conv == np_array(lst, legacy) IN
    IF conv.raised # "none" THEN [raised |-> conv.raised, array |-> NoArray]
    ELSE [raised |-> post_init(conv.array, mg), array |-> conv.array]

----------------------------------------------------------------------------
(* The grid operations of class GameOfLife *)

E_Index == "IndexError: tuple index out of range"
E_Unpack == "ValueError: not enough values to unpack"
E_Iter == "TypeError: 'numpy.int64' object is not iterable"
E_RunLimit == "ValueError: max_generations must be positive"
E_Conv2D == "ValueError: convolve2d inputs must both be 2-D arrays"

zeros(rows, cols) ==
    [shape |-> <<rows, cols>>, data |-> [k \in 1..(rows * cols) |-> 0]]

\* np.array([0]): the one-dimensional array reduce() stores on extinction
Array1D_0 == [shape |-> <<1>>, data |-> <<0>>]

\* variant: the enlarged array is created with np.ones
expand_ones_border(a) ==
    IF ndim(a) < 2 THEN [raised |-> E_Index, state |-> a]
    ELSE
      LET rows == a.shape[1] + 2
          cols == a.shape[2] + 2
          InSlice(r, c) == r \in 2..(rows - 1) /\ c \in 2..(cols - 1)
      IN [raised |-> "none",
          state  |-> [shape |-> <<rows, cols>>,
                      data  |-> [k \in 1..(rows * cols) |->
                         LET r == RowOf(k, cols)
                             c == ColOf(k, cols)
                         IN IF InSlice(r, c) THEN at(a, r - 1, c - 1)
                            ELSE 1]]]

\* GameOfLife.expand; self.state.shape[1] does not exist for a 1-D array
expand(a) ==
    IF ndim(a) < 2 THEN [raised |-> E_Index, state |-> a]
    ELSE
      LET rows == a.shape[1] + 2
          cols == a.shape[2] + 2
          z    == zeros(rows, cols)
          \* new_state[1:-1, 1:-1] = self.state
          InSlice(r, c) == r \in 2..(rows - 1) /\ c \in 2..(cols - 1)
      IN [raised |-> "none",
          state  |-> [shape |-> <<rows, cols>>,
                      data  |-> [k \in 1..(rows * cols) |->
                         LET r == RowOf(k, cols)
                             c == ColOf(k, cols)
                         IN IF InSlice(r, c) THEN at(a, r - 1, c - 1)
                            ELSE at(z, r, c)]]]

empty_row(a, r) == \A c \in 1..a.shape[2] : at(a, r, c) = DEAD
empty_col(a, c) == \A r \in 1..a.shape[1] : at(a, r, c) = DEAD

RECURSIVE ScanTop(_, _)
ScanTop(a, top) ==
    IF top <= a.shape[1] /\ empty_row(a, top) THEN ScanTop(a, top + 1) ELSE top

RECURSIVE ScanBottom(_, _)
ScanBottom(a, bottom) ==
    IF bottom >= 1 /\ empty_row(a, bottom) THEN ScanBottom(a, bottom - 1)
    ELSE bottom

RECURSIVE ScanLeft(_, _)
ScanLeft(a, left) ==
    IF left <= a.shape[2] /\ empty_col(a, left) THEN ScanLeft(a, left + 1)
    ELSE left

RECURSIVE ScanRight(_, _)
ScanRight(a, right) ==
    IF right >= 1 /\ empty_col(a, right) THEN ScanRight(a, right - 1)
    ELSE right

\* variant: the scan from the bottom is left out, bottom stays row - 1
reduce_keeps_bottom_rows(a) ==
    IF ndim(a) # 2 THEN [raised |-> E_Unpack, state |-> a, printed |-> <<>>]
    ELSE
      LET top    == ScanTop(a, 1)
          bottom == a.shape[1]
          left   == ScanLeft(a, 1)
          right  == ScanRight(a, a.shape[2])
      IN IF top > bottom \/ left > right
         THEN [raised |-> "none", state |-> Array1D_0,
               printed |-> <<population(a)>>]
         ELSE [raised |-> "none",
               state  |-> LET rows == bottom - top + 1
                              cols == right - left + 1
                          IN [shape |-> <<rows, cols>>,
                              data  |-> [k \in 1..(rows * cols) |->
                                 at(a, top + RowOf(k, cols) - 1,
                                       left + ColOf(k, cols) - 1)]],
               printed |-> <<>>]

\* GameOfLife.reduce; "row, col = self.state.shape" needs two dimensions
reduce(a) ==
    IF ndim(a) # 2 THEN [raised |-> E_Unpack, state |-> a, printed |-> <<>>]
    ELSE
      LET top    == ScanTop(a, 1)
          bottom == ScanBottom(a, a.shape[1])
          left   == ScanLeft(a, 1)
          right  == ScanRight(a, a.shape[2])
      IN IF top > bottom \/ left > right
         THEN [raised |-> "none", state |-> Array1D_0,
               printed |-> <<population(a)>>]
         ELSE [raised |-> "none",
               \* self.state[top : bottom + 1, left : right + 1]
               state  |-> LET rows == bottom - top + 1
                              cols == right - left + 1
                          IN [shape |-> <<rows, cols>>,
                              data  |-> [k \in 1..(rows * cols) |->
                                 at(a, top + RowOf(k, cols) - 1,
                                       left + ColOf(k, cols) - 1)]],
               printed |-> <<>>]

\* variant: the centre of the kernel is 1, so a cell counts itself
kernel_counts_centre == << <<1, 1, 1>>,
                           <<1, 1, 1>>,
                           <<1, 1, 1>> >>

kernel == << <<1, 1, 1>>,
             <<1, 0, 1>>,
             <<1, 1, 1>> >>

\* variant: boundary="wrap", the grid is a torus
filled_wraparound(a, r, c) ==
    at(a, ((r - 1) % a.shape[1]) + 1, ((c - 1) % a.shape[2]) + 1)

\* boundary="fill", fillvalue=0
filled(a, r, c) ==
    IF r \in 1..a.shape[1] /\ c \in 1..a.shape[2] THEN at(a, r, c) ELSE 0

\* GameOfLife.count_neighbors: convolve2d(self.state, kernel, mode="same"),
\* out[r, c] = sum over the kernel cells (p, q) of
\*             kernel[p, q] * state[r + 1 - p, c + 1 - q]   (0-based p, q)
count_neighbors(a) ==
    [shape |-> a.shape,
     data  |-> [n \in 1..(a.shape[1] * a.shape[2]) |->
        LET r == RowOf(n, a.shape[2])
            c == ColOf(n, a.shape[2])
        IN SumSeq([k \in 1..9 |->
              LET p == RowOf(k, 3)
                  q == ColOf(k, 3)
              IN kernel[p][q] * filled(a, r + 2 - p, c + 2 - q)])]]

\* variant: a live cell survives with exactly 3 neighbours only
apply_rules_survive_only_three(a, neighbors) ==
    LET z == zeros(a.shape[1], a.shape[2])
        size == a.shape[1] * a.shape[2]
        survive(k) == a.data[k] = ALIVE /\ neighbors.data[k] = 3
        born(k) == a.data[k] = DEAD /\ neighbors.data[k] = 3
        s1 == [k \in 1..size |-> IF survive(k) THEN ALIVE ELSE z.data[k]]
    IN [shape |-> a.shape,
        data  |-> [k \in 1..size |-> IF born(k) THEN ALIVE ELSE s1[k]]]

\* the two masked assignments of evolve (lines 178-184)
apply_rules(a, neighbors) ==
    LET z == zeros(a.shape[1], a.shape[2])     \* np.zeros_like(self.state)
        size == a.shape[1] * a.shape[2]
        survive(k) == a.data[k] = ALIVE
                      /\ (neighbors.data[k] = 2 \/ neighbors.data[k] = 3)
        born(k) == a.data[k] = DEAD /\ neighbors.data[k] = 3
        s1 == [k \in 1..size |-> IF survive(k) THEN ALIVE ELSE z.data[k]]
    IN [shape |-> a.shape,
        data  |-> [k \in 1..size |-> IF born(k) THEN ALIVE ELSE s1[k]]]

\* variant: the step that ends in extinction leaves before the increment
evolve_extinction_skips_increment(a, gen) ==
    LET ex == expand(a) IN
    IF ex.raised # "none"
    THEN [raised |-> ex.raised, state |-> a, generation |-> gen,
          snapshot |-> NoArray, new_state |-> NoArray, printed |-> <<>>]
    ELSE
      LET neighbors == count_neighbors(ex.state)
          ns        == apply_rules(ex.state, neighbors)
          red       == reduce(ns)
      IN [raised |-> red.raised, state |-> red.state,
          generation |-> IF population(ns) = 0 THEN gen ELSE gen + 1,
          snapshot |-> ex.state, new_state |-> ns, printed |-> red.printed]

\* variant: the step ends without the call of reduce()
evolve_without_reduce(a, gen) ==
    LET ex == expand(a) IN
    IF ex.raised # "none"
    THEN [raised |-> ex.raised, state |-> a, generation |-> gen,
          snapshot |-> NoArray, new_state |-> NoArray, printed |-> <<>>]
    ELSE
      LET neighbors == count_neighbors(ex.state)
          ns        == apply_rules(ex.state, neighbors)
      IN [raised |-> "none", state |-> ns, generation |-> gen + 1,
          snapshot |-> ex.state, new_state |-> ns, printed |-> <<>>]

\* GameOfLife.evolve
evolve(a, gen) ==
    LET ex == expand(a) IN
    IF ex.raised # "none"
    THEN [raised |-> ex.raised, state |-> a, generation |-> gen,
          snapshot |-> NoArray, new_state |-> NoArray, printed |-> <<>>]
    ELSE
      LET neighbors == count_neighbors(ex.state)
          ns        == apply_rules(ex.state, neighbors)
          red       == reduce(ns)
      IN [raised |-> red.raised, state |-> red.state, generation |-> gen + 1,
          snapshot |-> ex.state, new_state |-> ns, printed |-> red.printed]

\* GameOfLife.__str__: the rows joined by "\n", one character per cell.
\* Iterating a 1-D array yields scalars, and "for cell in row" over a
\* scalar is a TypeError.
str(a) ==
    IF ndim(a) = 1 /\ a.shape[1] > 0
    THEN [raised |-> E_Iter, text |-> <<>>]
    ELSE IF ndim(a) = 1 \/ a.shape[1] = 0
    THEN [raised |-> "none", text |-> <<>>]
    ELSE
      LET rows == a.shape[1]
          cols == a.shape[2]
      IN [raised |-> "none",
          text |-> [k \in 1..(rows * cols + rows - 1) |->
                      LET r == ((k - 1) \div (cols + 1)) + 1
                          c == ((k - 1) % (cols + 1)) + 1
                      IN IF c = cols + 1 THEN "\n"
                         ELSE IF at(a, r, c) = ALIVE THEN live_cell_char
                         ELSE dead_cell_char]]

----------------------------------------------------------------------------
(* Inputs *)

\* rectangular 0/1 patterns
Shapes == {mn \in (1..MaxCells) \X (1..MaxCells) : mn[1] * mn[2] <= MaxCells}
ValidPatterns ==
    UNION {[1..mn[1] -> [1..mn[2] -> {0, 1}]] : mn \in Shapes}

\* lists of lists of ints in 0..2, ragged and empty ones included
BadRows == UNION {[1..n -> 0..2] : n \in 0..BadRowLen}
BadPatterns ==
    UNION {[1..m -> BadRows] : m \in 0..BadRowCount}
       \cup {<< <<1, 0>>, <<1>> >>, << <<1, 2>> >>}

\* the initial state of main() in both scripts
MainPattern == << <<1, 1, 0>>, <<0, 1, 1>>, <<0, 1, 0>> >>

Blinker == << <<0, 1, 0>>, <<0, 1, 0>>, <<0, 1, 0>> >>

Patterns == ValidPatterns \cup BadPatterns \cup {MainPattern, Blinker}

\* Optional[int] arguments: <<>> is None, <<n>> is the integer n
Limits == {<<>>} \cup {<<n>> : n \in -1..MaxLimit}

\* max_generations arguments of the constructor: rejected ones and one
\* small enough for run_simulation() to reach it
ConstructorLimits == {-1, 0, MaxLimit}

NoRet == [kind |-> "none", text |-> <<>>]

----------------------------------------------------------------------------
(* Calls on the class *)

Init ==
    /\ pc = "start"
    /\ initial_state = <<>>
    /\ arg_max = 0
    /\ op = "none"
    /\ state = NoArray
    /\ generation = 0
    /\ max_generations = 0
    /\ raised = "none"
    /\ ret = NoRet
    /\ printed = <<>>
    /\ i = 0
    /\ limit = 0
    /\ gen0 = 0
    /\ steps = 0
    /\ snapshot = NoArray
    /\ new_state = NoArray
    /\ counted = NoArray
    /\ grid0 = NoArray
    /\ estado = <<>>
    /\ life_op = "none"
    /\ life_i = 0
    /\ life_msg = FALSE
    /\ life_out = <<>>
    /\ calls = 0
    /\ life_grid0 = <<>>
    /\ primes = 0                              \* Prime.py line 11
    /\ lock = 0                                \* Prime.py line 12
    /\ threads_pc = "idle"
    /\ hilos = [t \in 1..2 |-> "new"]
    /\ prime_i = [t \in 1..2 |-> 0]
    /\ local_primes = [t \in 1..2 |-> 0]
    /\ loaded = [t \in 1..2 |-> 0]
    /\ prime_ret = 0
    /\ prime_calls = 0

\* the effect of GameOfLife(state=np.array(lst), max_generations=mg)
Constructed(lst, mg, legacy) ==
    LET res == construct(lst, mg, legacy) IN
    /\ initial_state' = lst
    /\ arg_max' = mg
    /\ op' = "construct"
    /\ raised' = res.raised
    /\ IF res.raised = "none"
       THEN /\ pc' = "ready"
            /\ state' = res.array
            /\ max_generations' = mg
       ELSE /\ pc' = "failed"
            /\ UNCHANGED <<state, max_generations>>
    /\ generation' = 0
    /\ UNCHANGED <<ret, printed, i, limit, gen0, steps, snapshot, new_state,
                   counted, grid0>>
    /\ UNCHANGED lifeVars
    /\ UNCHANGED primeVars

\* GameOfLife.from_list(initial_state): max_generations keeps its default
FromList ==
    /\ pc = "start"
    /\ \E lst \in Patterns, legacy \in BOOLEAN :
          Constructed(lst, DefaultMaxGenerations, legacy)

\* GameOfLife(state=np.array(initial_state), max_generations=mg)
New ==
    /\ pc = "start"
    /\ \E lst \in Patterns, mg \in ConstructorLimits, legacy \in BOOLEAN :
          Constructed(lst, mg, legacy)

\* a call of evolve() by the owner of the object
Evolve ==
    /\ pc = "ready"
    /\ steps < MaxSteps
    /\ LET res == evolve(state, generation) IN
       /\ raised' = res.raised
       /\ state' = res.state
       /\ generation' = res.generation
       /\ printed' = res.printed
       /\ snapshot' = res.snapshot
       /\ new_state' = res.new_state
       /\ steps' = IF res.raised = "none" THEN steps + 1 ELSE steps
    /\ ret' = NoRet
    /\ op' = "evolve"
    /\ counted' = NoArray
    /\ grid0' = NoArray
    /\ UNCHANGED <<pc, initial_state, arg_max, max_generations, i, limit, gen0>>
    /\ UNCHANGED lifeVars
    /\ UNCHANGED primeVars

\* a call of expand() by the owner of the object
Expand ==
    /\ pc = "ready"
    /\ Len(state.data) <= MaxArea
    /\ LET res == expand(state) IN
       /\ raised' = res.raised
       /\ state' = res.state
       /\ grid0' = IF res.raised = "none" THEN state ELSE NoArray
    /\ ret' = NoRet
    /\ printed' = <<>>
    /\ op' = "expand"
    /\ counted' = NoArray
    /\ snapshot' = NoArray
    /\ new_state' = NoArray
    /\ UNCHANGED <<pc, initial_state, arg_max, generation, max_generations, i,
                   limit, gen0, steps>>
    /\ UNCHANGED lifeVars
    /\ UNCHANGED primeVars

\* a call of count_neighbors() by the owner of the object.  convolve2d
\* rejects an input that is not 2-D; what it does with a 2-D array
\* without elements depends on the SciPy release: it returns the empty
\* array or raises.
CountNeighbors ==
    /\ pc = "ready"
    /\ \E rejects_empty \in BOOLEAN :
         IF ndim(state) # 2 \/ (Len(state.data) = 0 /\ rejects_empty)
         THEN /\ raised' = E_Conv2D
              /\ counted' = NoArray
         ELSE /\ raised' = "none"
              /\ counted' = count_neighbors(state)
    /\ ret' = NoRet
    /\ printed' = <<>>
    /\ op' = "count_neighbors"
    /\ snapshot' = NoArray
    /\ new_state' = NoArray
    /\ grid0' = NoArray
    /\ UNCHANGED <<pc, initial_state, arg_max, state, generation,
                   max_generations, i, limit, gen0, steps>>
    /\ UNCHANGED lifeVars
    /\ UNCHANGED primeVars

\* a call of reduce() by the owner of the object
Reduce ==
    /\ pc = "ready"
    /\ LET res == reduce(state) IN
       /\ raised' = res.raised
       /\ state' = res.state
       /\ printed' = res.printed
    /\ ret' = NoRet
    /\ op' = "reduce"
    /\ counted' = NoArray
    /\ grid0' = IF op = "expand" /\ raised = "none" THEN grid0 ELSE NoArray
    /\ snapshot' = NoArray
    /\ new_state' = NoArray
    /\ UNCHANGED <<pc, initial_state, arg_max, generation, max_generations, i,
                   limit, gen0, steps>>
    /\ UNCHANGED lifeVars
    /\ UNCHANGED primeVars

\* variant: the loop is range(self.generation, max_generations)
RunStart_absolute_limit ==
    /\ pc = "ready"
    /\ \E arg \in Limits :
         LET mg == IF arg = <<>> THEN max_generations ELSE arg[1] IN
         IF mg <= 0
         THEN /\ raised' = E_RunLimit
              /\ UNCHANGED <<pc, i, limit, gen0>>
         ELSE /\ raised' = "none"
              /\ pc' = "running"
              /\ i' = generation
              /\ limit' = mg
              /\ gen0' = generation
    /\ ret' = NoRet
    /\ printed' = <<>>
    /\ op' = "run_simulation"
    /\ counted' = NoArray
    /\ grid0' = NoArray
    /\ snapshot' = NoArray
    /\ new_state' = NoArray
    /\ UNCHANGED <<initial_state, arg_max, state, generation, max_generations,
                   steps>>
    /\ UNCHANGED lifeVars
    /\ UNCHANGED primeVars

\* run_simulation, lines 199-203: entry and argument check
RunStart ==
    /\ pc = "ready"
    /\ \E arg \in Limits :
         LET mg == IF arg = <<>> THEN max_generations ELSE arg[1] IN
         IF mg <= 0
         THEN /\ raised' = E_RunLimit
              /\ UNCHANGED <<pc, i, limit, gen0>>
         ELSE /\ raised' = "none"
              /\ pc' = "running"
              /\ i' = 0
              /\ limit' = mg
              /\ gen0' = generation
    /\ ret' = NoRet
    /\ printed' = <<>>
    /\ op' = "run_simulation"
    /\ counted' = NoArray
    /\ grid0' = NoArray
    /\ snapshot' = NoArray
    /\ new_state' = NoArray
    /\ UNCHANGED <<initial_state, arg_max, state, generation, max_generations,
                   steps>>
    /\ UNCHANGED lifeVars
    /\ UNCHANGED primeVars

\* run_simulation, lines 205-216: one iteration of the for loop
RunIter ==
    /\ pc = "running"
    /\ i < limit
    /\ steps < MaxSteps
    /\ LET res == evolve(state, generation) IN
       /\ state' = res.state
       /\ generation' = res.generation
       /\ printed' = res.printed
       /\ snapshot' = res.snapshot
       /\ new_state' = res.new_state
       /\ steps' = IF res.raised = "none" THEN steps + 1 ELSE steps
       /\ IF res.raised # "none"
          THEN /\ raised' = res.raised
               /\ ret' = NoRet
               /\ pc' = "ready"
               /\ i' = 0 /\ limit' = 0 /\ gen0' = 0
          ELSE IF population(res.state) = 0
          THEN LET s == str(res.state) IN
               /\ raised' = s.raised
               /\ ret' = IF s.raised = "none"
                         THEN [kind |-> "warn", text |-> s.text]
                         ELSE NoRet
               /\ pc' = "ready"
               /\ i' = 0 /\ limit' = 0 /\ gen0' = 0
          ELSE /\ raised' = "none"
               /\ ret' = NoRet
               /\ pc' = "running"
               /\ i' = i + 1
               /\ UNCHANGED <<limit, gen0>>
    /\ UNCHANGED <<initial_state, arg_max, op, max_generations, counted,
                   grid0>>
    /\ UNCHANGED lifeVars
    /\ UNCHANGED primeVars

\* run_simulation, line 218: the loop is exhausted
RunReturn ==
    /\ pc = "running"
    /\ i = limit
    /\ LET s == str(state) IN
       /\ raised' = s.raised
       /\ ret' = IF s.raised = "none"
                 THEN [kind |-> "plain", text |-> s.text]
                 ELSE NoRet
    /\ pc' = "ready"
    /\ i' = 0 /\ limit' = 0 /\ gen0' = 0
    /\ snapshot' = NoArray
    /\ new_state' = NoArray
    /\ printed' = <<>>
    /\ UNCHANGED <<initial_state, arg_max, op, state, generation,
                   max_generations, steps, counted, grid0>>
    /\ UNCHANGED lifeVars
    /\ UNCHANGED primeVars

----------------------------------------------------------------------------
(* life.py: the same automaton on lists of lists *)

\* contar_vecinos
contar_vecinos(e, fila, columna) ==
    Cardinality({fc \in ((fila - 1)..(fila + 1)) \X ((columna - 1)..(columna + 1)) :
        /\ ~(fc[1] = fila /\ fc[2] = columna)
        /\ ~(fc[1] < 1 \/ fc[1] > Len(e))
        /\ ~(fc[2] < 1 \/ fc[2] > Len(e[1]))
        /\ e[fc[1]][fc[2]] = 1})

\* crear_nuevo_estado
crear_nuevo_estado(e) ==
    [f \in 1..Len(e) |-> [c \in 1..Len(e[1]) |-> 0]]

\* expandir
expandir(e) ==
    LET n_filas    == Len(e)
        n_columnas == Len(e[1])
    IN [f \in 1..(n_filas + 2) |-> [c \in 1..(n_columnas + 2) |->
          IF f - 1 \in 1..n_filas /\ c - 1 \in 1..n_columnas
          THEN e[f - 1][c - 1] ELSE 0]]

\* the counting loops of reducir: the number of leading TRUE entries
RECURSIVE Sobrantes(_)
Sobrantes(flags) ==
    IF flags = <<>> \/ ~flags[1] THEN 0 ELSE 1 + Sobrantes(Tail(flags))

Reverso(s) == [k \in 1..Len(s) |-> s[Len(s) + 1 - k]]

\* reducir: the list returned and whether "Se acabo la vida" was printed
reducir(e) ==
    LET n_filas    == Len(e)
        n_columnas == Len(e[1])
        fila_ceros == [f \in 1..n_filas |->
                         \A c \in 1..n_columnas : e[f][c] = 0]
        columna_ceros == [c \in 1..n_columnas |->
                            \A f \in 1..n_filas : e[f][c] = 0]
        filas_sobrantes_superior     == Sobrantes(fila_ceros)
        filas_sobrantes_inferior     == Sobrantes(Reverso(fila_ceros))
        columnas_sobrantes_izquierda == Sobrantes(columna_ceros)
        columnas_sobrantes_derecha   == Sobrantes(Reverso(columna_ceros))
        \* 0-based half-open bounds, as in the source
        fila_inicio    == filas_sobrantes_superior
        fila_final     == n_filas - filas_sobrantes_inferior
        columna_inicio == columnas_sobrantes_izquierda
        columna_final  == n_columnas - columnas_sobrantes_derecha
    IN IF fila_inicio >= fila_final \/ columna_inicio >= columna_final
       THEN [estado |-> << <<0>> >>, msg |-> TRUE]
       ELSE [estado |-> [f \in 1..(fila_final - fila_inicio) |->
                          [c \in 1..(columna_final - columna_inicio) |->
                             e[fila_inicio + f][columna_inicio + c]]],
             msg |-> FALSE]

\* evolucionar
evolucionar(e0) ==
    LET e == expandir(e0)
        nuevo_estado == crear_nuevo_estado(e)
    \* every cell of nuevo_estado is assigned
    IN [f \in 1..Len(nuevo_estado) |-> [c \in 1..Len(nuevo_estado[1]) |->
          LET n_vecinos == contar_vecinos(e, f, c) IN
          IF e[f][c] = 1
          THEN (IF n_vecinos < 2 \/ n_vecinos > 3 THEN 0 ELSE 1)
          ELSE (IF n_vecinos = 3 THEN 1 ELSE 0)]]

\* contar_poblacion
contar_poblacion(e) ==
    Cardinality({fc \in (1..Len(e)) \X (1..Len(e[1])) : e[fc[1]][fc[2]] = 1})

LifePatterns == ValidPatterns \cup {MainPattern, Blinker}

\* a caller of life.py starts with a pattern (main starts with MainPattern)
LifeStart ==
    /\ pc = "start"
    /\ pc' = "life"
    /\ \E p \in LifePatterns : estado' = p
    /\ UNCHANGED <<life_op, life_i, life_msg, life_out, calls, life_grid0>>
    /\ UNCHANGED classVars
    /\ UNCHANGED primeVars

LifeExpandir ==
    /\ pc = "life"
    /\ calls < MaxCalls
    /\ estado' = expandir(estado)
    /\ life_op' = "expandir"
    /\ life_grid0' = estado
    /\ life_msg' = FALSE
    /\ calls' = calls + 1
    /\ UNCHANGED <<pc, life_i, life_out>>
    /\ UNCHANGED classVars
    /\ UNCHANGED primeVars

LifeReducir ==
    /\ pc = "life"
    /\ calls < MaxCalls
    /\ estado' = reducir(estado).estado
    /\ life_msg' = reducir(estado).msg
    /\ life_op' = "reducir"
    /\ life_grid0' = IF life_op = "expandir" THEN life_grid0 ELSE <<>>
    /\ calls' = calls + 1
    /\ UNCHANGED <<pc, life_i, life_out>>
    /\ UNCHANGED classVars
    /\ UNCHANGED primeVars

LifeEvolucionar ==
    /\ pc = "life"
    /\ calls < MaxCalls
    /\ estado' = evolucionar(estado)
    /\ life_op' = "evolucionar"
    /\ life_grid0' = <<>>
    /\ life_msg' = FALSE
    /\ calls' = calls + 1
    /\ UNCHANGED <<pc, life_i, life_out>>
    /\ UNCHANGED classVars
    /\ UNCHANGED primeVars

\* main, lines 198-202: one iteration of "for i in range(150)"
LifeMainIter ==
    /\ pc = "life"
    /\ calls < MaxCalls
    /\ life_i < MainGenerations
    /\ LET red == reducir(evolucionar(estado)) IN
       /\ estado' = red.estado
       /\ life_msg' = red.msg
       /\ life_out' = <<life_i + 1, contar_poblacion(red.estado)>>
    /\ life_i' = life_i + 1
    /\ life_op' = "main"
    /\ life_grid0' = <<>>
    /\ calls' = calls + 1
    /\ UNCHANGED pc
    /\ UNCHANGED classVars
    /\ UNCHANGED primeVars

Next ==
    \/ FromList
    \/ New
    \/ Evolve
    \/ Expand
    \/ CountNeighbors
    \/ Reduce
    \/ RunStart
    \/ RunIter
    \/ RunReturn
    \/ LifeStart
    \/ LifeExpandir
    \/ LifeReducir
    \/ LifeEvolucionar
    \/ LifeMainIter

Spec == Init /\ [][Next]_vars

----------------------------------------------------------------------------
(* Prime.py: threads() and its two search_primes workers *)

\* int(math.sqrt(n))
Isqrt(n) == CHOOSE k \in 0..n : k * k <= n /\ (k + 1) * (k + 1) > n

\* is_prime
is_prime(n) ==
    IF n <= 1 THEN FALSE
    ELSE IF n = 2 THEN TRUE
    ELSE IF n % 2 = 0 THEN FALSE
    ELSE \A d \in 3..Isqrt(n) : (d % 2 = 1) => (n % d # 0)

\* args of the two threads: [1, 500000] and [500001, 1000000]
prime_start(t) == IF t = 1 THEN 1 ELSE Half + 1
prime_end(t) == IF t = 1 THEN Half ELSE 2 * Half

\* threads, lines 42-44: the counter is reset, no thread exists yet
ThreadsEnter ==
    /\ threads_pc = "idle"
    /\ prime_calls < MaxPrimeCalls
    /\ primes' = 0
    /\ hilos' = [t \in 1..2 |-> "new"]
    /\ prime_i' = [t \in 1..2 |-> 0]
    /\ local_primes' = [t \in 1..2 |-> 0]
    /\ loaded' = [t \in 1..2 |-> 0]
    /\ threads_pc' = "start1"
    /\ UNCHANGED <<lock, prime_ret, prime_calls>>
    /\ UNCHANGED <<pc, classVars, lifeVars>>

\* threads, lines 46-52: hilo.start(); search_primes line 34 runs
StartThread ==
    /\ threads_pc \in {"start1", "start2"}
    /\ LET t == IF threads_pc = "start1" THEN 1 ELSE 2 IN
       /\ hilos' = [hilos EXCEPT ![t] = "loop"]
       /\ prime_i' = [prime_i EXCEPT ![t] = prime_start(t)]
       /\ local_primes' = [local_primes EXCEPT ![t] = 0]
    /\ threads_pc' = IF threads_pc = "start1" THEN "start2" ELSE "join1"
    /\ UNCHANGED <<primes, lock, loaded, prime_ret, prime_calls>>
    /\ UNCHANGED <<pc, classVars, lifeVars>>

\* search_primes, lines 35-37: one iteration of the loop, or its end
WorkerLoop(t) ==
    /\ hilos[t] = "loop"
    /\ IF prime_i[t] < prime_end(t)
       THEN /\ local_primes' =
                 [local_primes EXCEPT ![t] =
                    IF is_prime(prime_i[t]) THEN @ + 1 ELSE @]
            /\ prime_i' = [prime_i EXCEPT ![t] = @ + 1]
            /\ UNCHANGED hilos
       ELSE /\ hilos' = [hilos EXCEPT ![t] = "acquire"]
            /\ UNCHANGED <<local_primes, prime_i>>
    /\ UNCHANGED <<primes, lock, threads_pc, loaded, prime_ret, prime_calls>>
    /\ UNCHANGED <<pc, classVars, lifeVars>>

\* variant: the thread enters without waiting for the lock
WorkerAcquire_ignores_lock(t) ==
    /\ hilos[t] = "acquire"
    /\ lock' = t
    /\ hilos' = [hilos EXCEPT ![t] = "load"]
    /\ UNCHANGED <<primes, threads_pc, prime_i, local_primes, loaded,
                   prime_ret, prime_calls>>
    /\ UNCHANGED <<pc, classVars, lifeVars>>

\* search_primes, line 38: "with lock" blocks until the lock is free
WorkerAcquire(t) ==
    /\ hilos[t] = "acquire"
    /\ lock = 0
    /\ lock' = t
    /\ hilos' = [hilos EXCEPT ![t] = "load"]
    /\ UNCHANGED <<primes, threads_pc, prime_i, local_primes, loaded,
                   prime_ret, prime_calls>>
    /\ UNCHANGED <<pc, classVars, lifeVars>>

\* search_primes, line 39: "primes += local_primes" reads the global ...
WorkerLoad(t) ==
    /\ hilos[t] = "load"
    /\ loaded' = [loaded EXCEPT ![t] = primes]
    /\ hilos' = [hilos EXCEPT ![t] = "store"]
    /\ UNCHANGED <<primes, lock, threads_pc, prime_i, local_primes,
                   prime_ret, prime_calls>>
    /\ UNCHANGED <<pc, classVars, lifeVars>>

\* ... and then writes the sum back
WorkerStore(t) ==
    /\ hilos[t] = "store"
    /\ primes' = loaded[t] + local_primes[t]
    /\ hilos' = [hilos EXCEPT ![t] = "release"]
    /\ UNCHANGED <<lock, threads_pc, prime_i, local_primes, loaded,
                   prime_ret, prime_calls>>
    /\ UNCHANGED <<pc, classVars, lifeVars>>

\* search_primes, end of the with block: the lock is released
WorkerRelease(t) ==
    /\ hilos[t] = "release"
    /\ lock' = 0
    /\ hilos' = [hilos EXCEPT ![t] = "done"]
    /\ UNCHANGED <<primes, threads_pc, prime_i, local_primes, loaded,
                   prime_ret, prime_calls>>
    /\ UNCHANGED <<pc, classVars, lifeVars>>

\* threads, lines 54-55: h.join() returns once the thread has finished
Join ==
    /\ threads_pc \in {"join1", "join2"}
    /\ hilos[IF threads_pc = "join1" THEN 1 ELSE 2] = "done"
    /\ threads_pc' = IF threads_pc = "join1" THEN "join2" ELSE "return"
    /\ UNCHANGED <<primes, lock, hilos, prime_i, local_primes, loaded,
                   prime_ret, prime_calls>>
    /\ UNCHANGED <<pc, classVars, lifeVars>>

\* threads, line 56: return primes
ThreadsReturn ==
    /\ threads_pc = "return"
    /\ prime_ret' = primes
    /\ prime_calls' = prime_calls + 1
    /\ threads_pc' = "idle"
    /\ UNCHANGED <<primes, lock, hilos, prime_i, local_primes, loaded>>
    /\ UNCHANGED <<pc, classVars, lifeVars>>

NextPrime ==
    \/ ThreadsEnter
    \/ StartThread
    \/ \E t \in 1..2 : WorkerLoop(t)
    \/ \E t \in 1..2 : WorkerAcquire(t)
    \/ \E t \in 1..2 : WorkerLoad(t)
    \/ \E t \in 1..2 : WorkerStore(t)
    \/ \E t \in 1..2 : WorkerRelease(t)
    \/ Join
    \/ ThreadsReturn

SpecPrime == Init /\ [][NextPrime]_vars

----------------------------------------------------------------------------
(* Reference notions used by the properties *)

\* a well-formed grid: two dimensions, at least 1x1, one buffer cell per
\* position
IsGrid(a) ==
    /\ ndim(a) = 2
    /\ a.shape[1] >= 1
    /\ a.shape[2] >= 1
    /\ Len(a.data) = a.shape[1] * a.shape[2]

\* the array form of a list of lists
ListToArray(e) ==
    [shape |-> <<Len(e), Len(e[1])>>,
     data  |-> [k \in 1..(Len(e) * Len(e[1])) |->
                  e[RowOf(k, Len(e[1]))][ColOf(k, Len(e[1]))]]]

\* cell (r, c) of grid g placed in an unbounded DEAD plane, in the
\* coordinates of g expanded by one cell on every side
Embedded(g, r, c) ==
    IF (r - 1) \in 1..g.shape[1] /\ (c - 1) \in 1..g.shape[2]
    THEN at(g, r - 1, c - 1) ELSE DEAD

\* live Moore neighbours of (r, c) in that plane
MooreCount(g, r, c) ==
    Cardinality({d \in (-1..1) \X (-1..1) :
        d # <<0, 0>> /\ Embedded(g, r + d[1], c + d[2]) = ALIVE})

\* Conway's rule for one cell
ConwayCell(cell, n) ==
    IF cell = ALIVE
    THEN (IF n = 2 \/ n = 3 THEN ALIVE ELSE DEAD)
    ELSE (IF n = 3 THEN ALIVE ELSE DEAD)

\* b is the synchronous Conway update of g expanded by a one-cell DEAD border
IsConwayStep(g, b) ==
    /\ b.shape = <<g.shape[1] + 2, g.shape[2] + 2>>
    /\ Len(b.data) = b.shape[1] * b.shape[2]
    /\ \A r \in 1..b.shape[1], c \in 1..b.shape[2] :
          at(b, r, c) = ConwayCell(Embedded(g, r, c), MooreCount(g, r, c))

\* b is g with a one-cell DEAD border
IsExpansion(g, b) ==
    /\ b.shape = <<g.shape[1] + 2, g.shape[2] + 2>>
    /\ \A r \in 1..b.shape[1], c \in 1..b.shape[2] :
          at(b, r, c) = Embedded(g, r, c)

\* positions of the live cells of an array (a 1-D array is one row)
LiveCells(a) ==
    IF ndim(a) = 2
    THEN {rc \in (1..a.shape[1]) \X (1..a.shape[2]) :
             at(a, rc[1], rc[2]) = ALIVE}
    ELSE {rc \in {1} \X (1..Len(a.data)) : a.data[rc[2]] = ALIVE}

\* the first and the last row and column of g hold no live cell
DeadBorder(g) ==
    \A rc \in LiveCells(g) :
        /\ rc[1] \notin {1, g.shape[1]}
        /\ rc[2] \notin {1, g.shape[2]}

MinOf(S) == CHOOSE x \in S : \A y \in S : x <= y

\* the live cells relative to the top-left corner of their bounding box
Arrangement(a) ==
    LET L == LiveCells(a) IN
    IF L = {} THEN {}
    ELSE LET r0 == MinOf({rc[1] : rc \in L})
             c0 == MinOf({rc[2] : rc \in L})
         IN {<<rc[1] - r0, rc[2] - c0>> : rc \in L}

\* ndarray.tolist() of a 2-D array
ArrayToList(a) ==
    [r \in 1..a.shape[1] |-> [c \in 1..a.shape[2] |-> at(a, r, c)]]

\* a is a grid whose first and last row and column each hold a live cell
IsTightBox(a) ==
    /\ IsGrid(a)
    /\ \E rc \in LiveCells(a) : rc[1] = 1
    /\ \E rc \in LiveCells(a) : rc[1] = a.shape[1]
    /\ \E rc \in LiveCells(a) : rc[2] = 1
    /\ \E rc \in LiveCells(a) : rc[2] = a.shape[2]

\* the number of primes in start..(end - 1), by the definition of a prime
PrimesIn(start, end) ==
    Cardinality({n \in start..(end - 1) :
        n >= 2 /\ \A d \in 2..(n - 1) : n % d # 0})

\* the step is a call of evolve(): by the owner, or by run_simulation
EvolveCalled == op' = "evolve" \/ (pc = "running" /\ i < limit)

\* three live cells in a column, three live cells in a row
Column3 == {<<0, 0>>, <<1, 0>>, <<2, 0>>}
Row3 == {<<0, 0>>, <<0, 1>>, <<0, 2>>}

\* the 2x2 grid of live cells
BlockArray == [shape |-> <<2, 2>>, data |-> <<ALIVE, ALIVE, ALIVE, ALIVE>>]

----------------------------------------------------------------------------
(* Properties *)

\* C1: every completed evolve() computes, from the snapshot taken right
\* after expand(), exactly the synchronous Conway update of the previous
\* grid expanded by a one-cell DEAD border, and reduce() drops no live
\* cell of it; evolucionar() of life.py returns that same update.
C1_SynchronousConwayUpdate ==
    [][/\ (op' = "evolve" /\ steps' = steps + 1) =>
             /\ IsExpansion(state, snapshot')
             /\ IsConwayStep(state, new_state')
             /\ population(state') = population(new_state')
       /\ (pc = "running" /\ steps' = steps + 1) =>
             /\ IsExpansion(state, snapshot')
             /\ IsConwayStep(state, new_state')
             /\ population(state') = population(new_state')
       /\ (life_op' = "evolucionar" /\ calls' = calls + 1) =>
             IsConwayStep(ListToArray(estado), ListToArray(estado'))]_vars

\* C1 witness: a completed step in which a cell was born in the border row
\* added by expand() and a live cell died
C1_Witness ==
    /\ op = "evolve"
    /\ steps = 1
    /\ ndim(new_state) = 2
    /\ \E c \in 1..new_state.shape[2] : at(new_state, 1, c) = ALIVE
    /\ \E r \in 1..snapshot.shape[1], c \in 1..snapshot.shape[2] :
          at(snapshot, r, c) = ALIVE /\ at(new_state, r, c) = DEAD

\* the canonical empty grid: one row, one column, DEAD
Canonical1x1 == [shape |-> <<1, 1>>, data |-> <<DEAD>>]

\* C2: whenever a run_simulation call ends with population 0 it returns
\* normally (no exception) with the distinguished "WARN" result, never
\* with the plain result of a run that completes with live cells.
C2_ExtinctionIsNotAnException ==
    [][(pc = "running" /\ pc' = "ready" /\ population(state') = 0) =>
          (raised' = "none" /\ ret'.kind = "warn")]_vars

\* C3: after construction from a pattern of at least 1x1 cells and after
\* every step, extinction included, the state is a rectangular
\* two-dimensional array of at least 1x1 cells.
C3_AlwaysRectangularGrid ==
    (pc \in {"ready", "running"} /\ Len(initial_state[1]) >= 1) =>
        IsGrid(state)

\* C4: whenever reduce() runs on a grid without a live cell, directly or at
\* the end of evolve(), the state becomes the canonical 1x1 DEAD grid and
\* the extinction is printed; reducir() of life.py does the same.
C4_EmptyGridCollapsesToCanonical ==
    [][/\ (op' = "reduce" /\ ndim(state) = 2 /\ population(state) = 0) =>
             (state' = Canonical1x1 /\ printed' # <<>>)
       /\ (steps' = steps + 1 /\ population(new_state') = 0) =>
             (state' = Canonical1x1 /\ printed' # <<>>)
       /\ (life_op' = "reducir" /\ calls' = calls + 1
             /\ contar_poblacion(estado) = 0) =>
             (estado' = << <<0>> >> /\ life_msg')]_vars

\* C5: as soon as a step of run_simulation leaves population 0 the run
\* ends without a further step and reports the extinction, the generation
\* being the entry generation plus the number of steps taken.
C5_DriverHaltsAndReportsExtinction ==
    [][(pc = "running" /\ steps' = steps + 1 /\ population(state') = 0) =>
          /\ pc' = "ready"
          /\ generation' = gen0 + i + 1
          /\ raised' = "none"
          /\ ret'.kind = "warn"]_vars

\* C6 as stated: run_simulation steps only while generation < limit and
\* population > 0, a run that completes with live cells stops at
\* generation = limit, and generation never exceeds limit at the return.
C6_AbsoluteGenerationLimit ==
    [][/\ (pc = "running" /\ steps' = steps + 1) =>
             (generation < limit /\ population(state) > 0)
       /\ (pc = "running" /\ pc' = "ready" /\ raised' = "none") =>
             generation' <= limit
       /\ (pc = "running" /\ pc' = "ready" /\ ret'.kind = "plain") =>
             generation' = limit]_vars

\* C6 amended: the limit counts the steps of this run.  run_simulation
\* steps only while fewer than limit steps were taken in this run and no
\* earlier step of the run left population 0; a run that completes with
\* live cells stops at generation = gen0 + limit, and generation never
\* exceeds gen0 + limit when the run ends.
C6_RelativeGenerationLimit ==
    [][/\ (pc = "running" /\ steps' = steps + 1) =>
             /\ i < limit
             /\ generation = gen0 + i
             /\ (i > 0 => population(state) > 0)
       /\ (pc = "running" /\ pc' = "ready") => generation' <= gen0 + limit
       /\ (pc = "running" /\ pc' = "ready" /\ ret'.kind = "plain") =>
             /\ generation' = gen0 + limit
             /\ population(state') > 0]_vars

\* C6 witness: a run entered at a generation above 0 has exhausted its
\* loop with live cells and is about to return
C6_Witness ==
    /\ pc = "running"
    /\ i = limit
    /\ gen0 >= 1
    /\ population(state) > 0
    /\ generation = gen0 + limit
    /\ generation > limit

\* C7: generation is a non-negative integer, 0 at construction, and always
\* equal to the number of completed evolve() calls: each one adds exactly 1
\* and nothing else changes it.
C7_GenerationCountsSteps ==
    /\ generation \in Nat
    /\ generation = steps
    /\ (op = "construct" => generation = 0)

\* C7 witness: an object that has completed two steps, the second one
\* inside run_simulation
C7_Witness ==
    /\ pc = "running"
    /\ steps >= 2
    /\ generation >= 2
    /\ gen0 >= 1

\* the three ways a constructor call can violate an invariant
Ragged(lst) == ~IsRectangular(lst)
BadCell(lst) ==
    /\ lst # <<>>
    /\ IsRectangular(lst)
    /\ \E r \in 1..Len(lst) : \E c \in 1..Len(lst[r]) : lst[r][c] \notin {0, 1}
GoodPattern(lst) ==
    /\ lst # <<>>
    /\ IsRectangular(lst)
    /\ \A r \in 1..Len(lst) : \A c \in 1..Len(lst[r]) : lst[r][c] \in {0, 1}

\* the exceptions that name the shape invariant
NotRectangularErrors == {E_2D, "ValueError: inhomogeneous shape"}

\* C8: a constructor call with a ragged pattern fails with an exception
\* naming the shape, one with a cell outside {0, 1} fails with the
\* exception naming the cell values, one with max_generations <= 0 (and a
\* well-formed pattern) fails with the exception naming the limit; a failed
\* call leaves no object, and the three exceptions are pairwise different.
C8_ConstructionFailsClosed ==
    op = "construct" =>
       /\ Ragged(initial_state) =>
             pc = "failed" /\ raised \in NotRectangularErrors
       /\ BadCell(initial_state) => pc = "failed" /\ raised = E_Cells
       /\ (GoodPattern(initial_state) /\ arg_max <= 0) =>
             pc = "failed" /\ raised = E_MaxGen
       /\ pc = "failed" => state = NoArray /\ raised # "none"
       /\ pc = "ready" => raised = "none"
       /\ E_Cells \notin NotRectangularErrors
       /\ E_MaxGen \notin NotRectangularErrors
       /\ E_Cells # E_MaxGen

\* C8 witness: the ragged pattern [[1, 0], [1]] was rejected
C8_Witness ==
    /\ pc = "failed"
    /\ initial_state = << <<1, 0>>, <<1>> >>
    /\ raised \in NotRectangularErrors

\* C9: no evolve() call on a constructed object raises, whatever steps
\* came before it.
C9_StepNeverRaises ==
    /\ op = "evolve" => raised = "none"
    /\ op = "run_simulation" => raised # E_Index

\* C10: reduce() on the canonical 1x1 DEAD grid leaves that grid, prints
\* the extinction again and raises nothing.
C10_ReduceIdempotentOnCanonical ==
    [][(op' = "reduce" /\ state = Canonical1x1) =>
          /\ state' = Canonical1x1
          /\ printed' # <<>>
          /\ raised' = "none"]_vars

\* C11: when expand() and then reduce() are applied to a grid with no live
\* cell on its outer border, the result has the population and the
\* arrangement of live cells (relative to their bounding box) of that
\* grid; reducir(expandir(g)) of life.py likewise.
C11_ExpandReduceConserves ==
    /\ (op = "reduce" /\ grid0 # NoArray /\ DeadBorder(grid0)) =>
          /\ raised = "none"
          /\ population(state) = population(grid0)
          /\ Arrangement(state) = Arrangement(grid0)
    /\ (life_op = "reducir" /\ life_grid0 # <<>>
          /\ DeadBorder(ListToArray(life_grid0))) =>
          /\ contar_poblacion(estado) = contar_poblacion(life_grid0)
          /\ Arrangement(ListToArray(estado))
                = Arrangement(ListToArray(life_grid0))

\* C11 witness: a grid with two live cells inside a DEAD border went
\* through expand() and reduce() and came back trimmed to those cells
C11_Witness ==
    /\ op = "reduce"
    /\ grid0 # NoArray
    /\ DeadBorder(grid0)
    /\ population(grid0) >= 2
    /\ state.shape # grid0.shape

\* C12: an object built from the blinker always has population 3, and its
\* live cells form the column of three after an even number of steps and
\* the row of three after an odd number; in life.py a step turns every
\* column of three into a row of three and back, population 3.
C12_BlinkerHasPeriodTwo ==
    [][/\ (initial_state' = Blinker /\ pc' \in {"ready", "running"}) =>
             /\ population(state') = 3
             /\ Arrangement(state') =
                   (IF steps' % 2 = 0 THEN Column3 ELSE Row3)
       /\ (initial_state = Blinker /\ EvolveCalled) =>
             (steps' = steps + 1 /\ raised' = "none")
       /\ (life_op' \in {"evolucionar", "main"} /\ calls' = calls + 1
             /\ Arrangement(ListToArray(estado)) = Column3) =>
             /\ Arrangement(ListToArray(estado')) = Row3
             /\ contar_poblacion(estado') = 3
       /\ (life_op' \in {"evolucionar", "main"} /\ calls' = calls + 1
             /\ Arrangement(ListToArray(estado)) = Row3) =>
             /\ Arrangement(ListToArray(estado')) = Column3
             /\ contar_poblacion(estado') = 3]_vars

\* C12 witness: the blinker after two steps is the column of three again
C12_Witness ==
    /\ initial_state = Blinker
    /\ op = "evolve"
    /\ steps = 2
    /\ state.shape = <<3, 1>>
    /\ population(state) = 3

\* C13: every evolve() call on the 2x2 grid of live cells completes and
\* leaves exactly that grid, population 4: the 4x4 grid made by expand()
\* is trimmed back to 2x2.
C13_BlockIsStillLife ==
    [][(EvolveCalled /\ state = BlockArray) =>
          /\ steps' = steps + 1
          /\ raised' = "none"
          /\ snapshot'.shape = <<4, 4>>
          /\ state' = BlockArray
          /\ population(state') = 4]_vars

\* C13 witness: the block after three steps
C13_Witness ==
    /\ initial_state = << <<1, 1>>, <<1, 1>> >>
    /\ steps = 3
    /\ state = BlockArray

\* C14: count_neighbors() returns, at every position of the grid, the
\* value contar_vecinos computes there: the number of live cells among the
\* in-bounds Moore neighbours, the cell itself excluded and nothing
\* wrapped around, a number in 0..8; the same holds on every grid held by
\* a caller of life.py.
C14_ConvolutionEqualsLoopCount ==
    /\ (op = "count_neighbors" /\ raised = "none") =>
          /\ counted.shape = state.shape
          /\ \A r \in 1..state.shape[1], c \in 1..state.shape[2] :
                /\ at(counted, r, c)
                      = contar_vecinos(ArrayToList(state), r, c)
                /\ at(counted, r, c) = MooreCount(state, r + 1, c + 1)
                /\ at(counted, r, c) \in 0..8
    /\ pc = "life" =>
          \A f \in 1..Len(estado), c \in 1..Len(estado[1]) :
             /\ contar_vecinos(estado, f, c)
                   = at(count_neighbors(ListToArray(estado)), f, c)
             /\ contar_vecinos(estado, f, c)
                   = MooreCount(ListToArray(estado), f + 1, c + 1)
             /\ contar_vecinos(estado, f, c) \in 0..8

\* C14 witness: count_neighbors() on a grid with a live cell in the corner
\* of the grid that has at least two live neighbours
C14_Witness ==
    /\ op = "count_neighbors"
    /\ raised = "none"
    /\ Len(state.data) >= 4
    /\ at(state, 1, 1) = ALIVE
    /\ at(counted, 1, 1) >= 2
    /\ at(state, state.shape[1], state.shape[2]) = ALIVE

\* C15: after every completed evolve() that leaves a live cell the state
\* is the tight bounding box of the live cells (first and last row, first
\* and last column each hold a live cell) and has at most 2 rows and 2
\* columns more than before the step; the same for one iteration of
\* life.py's main loop, and reducir() returns a tight box whenever its
\* argument holds a live cell.
C15_TightBoundingBoxAfterStep ==
    [][/\ (steps' = steps + 1 /\ population(state') > 0) =>
             /\ IsTightBox(state')
             /\ state'.shape[1] <= state.shape[1] + 2
             /\ state'.shape[2] <= state.shape[2] + 2
       /\ (life_op' = "main" /\ calls' = calls + 1
             /\ contar_poblacion(estado') > 0) =>
             /\ IsTightBox(ListToArray(estado'))
             /\ Len(estado') <= Len(estado) + 2
             /\ Len(estado'[1]) <= Len(estado[1]) + 2
       /\ (life_op' = "reducir" /\ calls' = calls + 1
             /\ contar_poblacion(estado) > 0) =>
             /\ IsTightBox(ListToArray(estado'))
             /\ contar_poblacion(estado') = contar_poblacion(estado)]_vars

\* C15 witness: a completed step after which the grid has 2 rows more
\* than before (as many as the expanded grid) and fewer columns than the
\* expanded grid
C15_Witness ==
    /\ op = "evolve"
    /\ steps >= 1
    /\ raised = "none"
    /\ population(state) > 0
    /\ state.shape[1] = snapshot.shape[1]
    /\ state.shape[2] < snapshot.shape[2]

\* C16: the shared counter changes only when threads() resets it to 0
\* before any thread is started, or when a thread holding the lock adds
\* its local count to it; threads() reads it only after both threads
\* have finished, and returns the sum of the two local counts, each the
\* number of primes in the thread's range.
C16_LockedCounterSumsLocalCounts ==
    [][/\ (threads_pc = "idle" /\ threads_pc' # "idle") =>
             (primes' = 0 /\ \A t \in 1..2 : hilos'[t] = "new")
       /\ (primes' # primes) =>
             \/ threads_pc = "idle"
             \/ \E t \in 1..2 : hilos[t] = "store" /\ hilos'[t] = "release"
       /\ \A t \in 1..2 : (hilos[t] = "store" /\ hilos'[t] = "release") =>
             /\ lock = t
             /\ primes' = primes + local_primes[t]
       /\ (threads_pc = "return" /\ threads_pc' = "idle") =>
             /\ \A t \in 1..2 :
                   /\ hilos[t] = "done"
                   /\ local_primes[t] = PrimesIn(prime_start(t), prime_end(t))
             /\ prime_ret' = local_primes[1] + local_primes[2]]_vars

\* C16 witness: the second threads() call has returned the sum of two
\* non-zero local counts
C16_Witness ==
    /\ threads_pc = "idle"
    /\ prime_calls = 2
    /\ local_primes[1] > 0
    /\ local_primes[2] > 0
    /\ prime_ret = local_primes[1] + local_primes[2]

====
